---- MODULE Spec2Model ----
(***************************************************************************)
(* Model of the colour / pixel encoding engine of epd-waveshare            *)
(* (src/color.rs), of the read path of the simulator                       *)
(* (src/epd_simulator/mod.rs) and of the operations of the 7.5in          *)
(* quad-colour driver (src/epd7in5_yrd0750ryf665f60/mod.rs).               *)
(*                                                                         *)
(* Bytes are naturals 0..255, the u16 `bits` of bitmask is a natural       *)
(* 0..65535.  Colours and families are strings named as in the source.     *)
(***************************************************************************)
EXTENDS Integers, Sequences, FiniteSets, TLC

VARIABLES family, bwrbit, prior, buffer, written, last, nwrites, call,
          width, height, background_color, simbuf, display, simstate, simops,
          overflow_checks, drvstate, wire, drvlast, refresh_pending, drvops

vars == <<family, bwrbit, prior, buffer, written, last, nwrites, call,
          width, height, background_color, simbuf, display, simstate, simops,
          overflow_checks, drvstate, wire, drvlast, refresh_pending, drvops>>

codecVars == <<family, bwrbit, prior, buffer, written, last, nwrites>>
simVars == <<width, height, background_color, simbuf, display, simstate, simops>>
drvVars == <<overflow_checks, drvstate, wire, drvlast, refresh_pending, drvops>>

(***************************************************************************)
(* Bounds of the model                                                     *)
(***************************************************************************)
\* bytes of one plane of the frame buffer of the codec specification
NumBytes == 2
\* number of pixel writes in one behaviour of the codec specification
MaxWrites == 2
\* largest width and height of a simulated display
MaxDim == 4
\* number of driver operations in one behaviour of the driver specification
MaxDrvOps == 2
\* number of operations on one simulated display
MaxSimOps == 2
\* number of different contents of a buffer handed to the simulator
NumPatterns == 2

\* prior contents of consecutive bytes of the frame buffer
\* (0xA5, 0x36, 0xFF, 0x00), taken from any of its elements onwards
PriorSeq == <<165, 54, 255, 0>>

(***************************************************************************)
(* Fixed-width integer arithmetic                                          *)
(***************************************************************************)
Pow2(n) == 2 ^ n

\* a & b on values of at most 16 bits
BitAnd(a, b) ==
    LET t(k) == ((a \div k) % 2) * ((b \div k) % 2) * k
    IN  t(1) + t(2) + t(4) + t(8) + t(16) + t(32) + t(64) + t(128)
        + t(256) + t(512) + t(1024) + t(2048) + t(4096) + t(8192)
        + t(16384) + t(32768)
\* a | b on values of at most 16 bits
BitOr(a, b) == a + b - BitAnd(a, b)
\* a & b on u8
And8(a, b) ==
    LET t(k) == ((a \div k) % 2) * ((b \div k) % 2) * k
    IN  t(1) + t(2) + t(4) + t(8) + t(16) + t(32) + t(64) + t(128)
\* a | b on u8
Or8(a, b) == a + b - And8(a, b)
\* !a on u8
Not8(a) == 255 - a
\* a << s on u8 (bits shifted out are lost), a >> s
Shl8(a, s) == (a * Pow2(s)) % 256
Shl16(a, s) == (a * Pow2(s)) % 65536
Shr(a, s) == a \div Pow2(s)
\* `x as u8`
AsU8(x) == x % 256

Bytes == 0 .. 255

(***************************************************************************)
(* The colour families (src/color.rs)                                      *)
(***************************************************************************)
Color == {"Black", "White"}
TriColor == {"Black", "White", "Chromatic"}
QuadColor == {"Black", "White", "Red", "Yellow"}
OctColor == {"Black", "White", "Green", "Blue", "Red", "Yellow", "Orange", "HiZ"}

Families == {"Color", "TriColor", "QuadColor", "OctColor"}

Variants(fam) ==
    CASE fam = "Color" -> Color
      [] fam = "TriColor" -> TriColor
      [] fam = "QuadColor" -> QuadColor
      [] fam = "OctColor" -> OctColor

\* #[default] of every family
DefaultColor(fam) == "White"

BITS_PER_PIXEL_PER_BUFFER(fam) ==
    CASE fam = "Color" -> 1
      [] fam = "TriColor" -> 1
      [] fam = "QuadColor" -> 2
      [] fam = "OctColor" -> 4

BUFFER_COUNT(fam) ==
    CASE fam = "Color" -> 1
      [] fam = "TriColor" -> 2
      [] fam = "QuadColor" -> 1
      [] fam = "OctColor" -> 1

\* OctColor as u8
get_nibble(c) ==
    CASE c = "Black" -> 0
      [] c = "White" -> 1
      [] c = "Green" -> 2
      [] c = "Blue" -> 3
      [] c = "Red" -> 4
      [] c = "Yellow" -> 5
      [] c = "Orange" -> 6
      [] c = "HiZ" -> 7

\* impl ColorType for Color
Color_bitmask(c, flag, pos) ==
    LET bit == Shr(128, pos % 8)
    IN  CASE c = "Black" -> <<Not8(bit), 0>>
          [] c = "White" -> <<Not8(bit), bit>>

Color_from_bits(bits) ==
    IF bits = 0 THEN "Black" ELSE "White"

\* TriColor::bitmask with the two branches of the tie-break flag exchanged
TriColor_bitmask_swapped(c, flag, pos) ==
    LET bit == Shr(128, pos % 8)
    IN  CASE c = "Black" -> <<Not8(bit), 0>>
          [] c = "White" -> <<Not8(bit), bit>>
          [] c = "Chromatic" ->
               <<Not8(bit),
                 IF flag THEN BitOr(Shl16(bit, 8), bit)
                 ELSE Shl16(bit, 8)>>

\* impl ColorType for TriColor
TriColor_bitmask(c, flag, pos) ==
    LET bit == Shr(128, pos % 8)
    IN  CASE c = "Black" -> <<Not8(bit), 0>>
          [] c = "White" -> <<Not8(bit), bit>>
          [] c = "Chromatic" ->
               <<Not8(bit),
                 IF flag THEN Shl16(bit, 8)
                 ELSE BitOr(Shl16(bit, 8), bit)>>

TriColor_from_bits(bits) ==
    CASE bits = 0 -> "Black"
      [] bits = 1 -> "Chromatic"
      [] OTHER -> "White"

\* impl ColorType for QuadColor
QuadColor_color_bits(c) ==
    CASE c = "Black" -> 0
      [] c = "White" -> 1
      [] c = "Yellow" -> 2
      [] c = "Red" -> 3

\* QuadColor::bitmask shifting by one bit per pixel instead of two
QuadColor_bitmask_shift1(c, flag, pos) ==
    LET shift == pos % 4
        mask == Not8(Shl8(3, shift))
        value == (QuadColor_color_bits(c) * Pow2(shift)) % 65536
    IN  <<mask, value>>

QuadColor_bitmask(c, flag, pos) ==
    LET shift == (pos % 4) * 2
        mask == Not8(Shl8(3, shift))
        value == (QuadColor_color_bits(c) * Pow2(shift)) % 65536
    IN  <<mask, value>>

QuadColor_from_bits(bits) ==
    CASE bits = 1 -> "White"
      [] bits = 2 -> "Yellow"
      [] bits = 17 -> "Red"
      [] OTHER -> "Black"

\* OctColor::bitmask placing even positions in the low nibble
OctColor_bitmask_low_first(c, flag, pos) ==
    LET mask == Not8(Shr(240, ((pos + 1) % 2) * 4))
        bits == get_nibble(c)
    IN  <<mask, IF pos % 2 = 0 THEN bits ELSE Shl16(bits, 4)>>

\* impl ColorType for OctColor
OctColor_bitmask(c, flag, pos) ==
    LET mask == Not8(Shr(240, (pos % 2) * 4))
        bits == get_nibble(c)
    IN  <<mask, IF pos % 2 = 1 THEN bits ELSE Shl16(bits, 4)>>

OctColor_from_bits(bits) ==
    CASE bits = 0 -> "Black"
      [] bits = 1 -> "White"
      [] bits = 2 -> "Yellow"
      [] OTHER -> "Red"

\* ColorType::bitmask, dispatched on the implementing type
bitmask(fam, c, flag, pos) ==
    CASE fam = "Color" -> Color_bitmask(c, flag, pos)
      [] fam = "TriColor" -> TriColor_bitmask(c, flag, pos)
      [] fam = "QuadColor" -> QuadColor_bitmask(c, flag, pos)
      [] fam = "OctColor" -> OctColor_bitmask(c, flag, pos)

\* ColorType::from_bits, dispatched on the implementing type
from_bits(fam, bits) ==
    CASE fam = "Color" -> Color_from_bits(bits)
      [] fam = "TriColor" -> TriColor_from_bits(bits)
      [] fam = "QuadColor" -> QuadColor_from_bits(bits)
      [] fam = "OctColor" -> OctColor_from_bits(bits)

(***************************************************************************)
(* Conversions of src/color.rs                                             *)
(***************************************************************************)
\* Result<OctColor, OutOfColorRangeParseError>
\* as <<tag, colour, offending value>>
OkColor(c) == <<"Ok", c, 0>>
ErrRange(e) == <<"Err", "", e>>
\* Result<(OctColor, OctColor), OutOfColorRangeParseError>
\* as <<tag, colours, offending value>>
OkPair(h, l) == <<"Ok", <<h, l>>, 0>>
ErrPair(e) == <<"Err", <<>>, e>>
\* a call that returns a colour, or unwinds with a panic
Returned(c) == <<"Ok", c>>
Panicked == <<"Panic", "">>
\* the parts of a result
Tag(r) == r[1]
ColorOf(r) == r[2]
ErrorOf(r) == r[3]

\* OctColor::colors_byte
colors_byte(a, b) == BitOr(Shl8(get_nibble(a), 4), get_nibble(b))

\* OctColor::from_nibble matching on the whole byte instead of its low nibble
from_nibble_unmasked(nibble) ==
    LET n == nibble
    IN  CASE n = 0 -> OkColor("Black")
          [] n = 1 -> OkColor("White")
          [] n = 2 -> OkColor("Green")
          [] n = 3 -> OkColor("Blue")
          [] n = 4 -> OkColor("Red")
          [] n = 5 -> OkColor("Yellow")
          [] n = 6 -> OkColor("Orange")
          [] n = 7 -> OkColor("HiZ")
          [] OTHER -> ErrRange(n)

\* OctColor::from_nibble
from_nibble(nibble) ==
    LET n == BitAnd(nibble, 15)
    IN  CASE n = 0 -> OkColor("Black")
          [] n = 1 -> OkColor("White")
          [] n = 2 -> OkColor("Green")
          [] n = 3 -> OkColor("Blue")
          [] n = 4 -> OkColor("Red")
          [] n = 5 -> OkColor("Yellow")
          [] n = 6 -> OkColor("Orange")
          [] n = 7 -> OkColor("HiZ")
          [] OTHER -> ErrRange(n)

\* OctColor::split_byte returning the low nibble first
split_byte_low_first(byte) ==
    LET low == from_nibble(BitAnd(byte, 15))
        high == from_nibble(BitAnd(Shr(byte, 4), 15))
    IN  IF Tag(low) = "Err" THEN ErrPair(ErrorOf(low))
        ELSE IF Tag(high) = "Err" THEN ErrPair(ErrorOf(high))
        ELSE OkPair(ColorOf(low), ColorOf(high))

\* OctColor::split_byte
split_byte(byte) ==
    LET low == from_nibble(BitAnd(byte, 15))
        high == from_nibble(BitAnd(Shr(byte, 4), 15))
    IN  IF Tag(low) = "Err" THEN ErrPair(ErrorOf(low))
        ELSE IF Tag(high) = "Err" THEN ErrPair(ErrorOf(high))
        ELSE OkPair(ColorOf(high), ColorOf(low))

\* Color::get_bit_value
get_bit_value(c) ==
    CASE c = "White" -> 1
      [] c = "Black" -> 0

\* Color::from_u8 mapping every non-zero byte to White instead of panicking
from_u8_lenient(val) ==
    CASE val = 0 -> Returned("Black")
      [] OTHER -> Returned("White")

\* Color::from_u8
from_u8(val) ==
    CASE val = 0 -> Returned("Black")
      [] val = 1 -> Returned("White")
      [] OTHER -> Panicked

\* impl From<u8> for Color
Color_from(value) == from_u8(value)

\* the conversion from RawU4 falling back to black on a nibble out of range
OctColor_from_RawU4_or_black(raw) ==
    LET r == from_nibble(raw)
    IN  IF Tag(r) = "Ok" THEN Returned(ColorOf(r)) ELSE Returned("Black")

\* impl From<RawU4> for OctColor: from_nibble(b.into_inner()).unwrap()
OctColor_from_RawU4(raw) ==
    LET r == from_nibble(raw)
    IN  IF Tag(r) = "Ok" THEN Returned(ColorOf(r)) ELSE Panicked

\* the shifts bitmask evaluates at position pos, as <<amount, bits of the
\* shifted type>>; a shift by the width of its type or more overflows
bitmask_shifts(fam, pos) ==
    CASE fam = "Color" -> {<<pos % 8, 8>>}
      [] fam = "TriColor" -> {<<pos % 8, 8>>, <<8, 16>>}
      [] fam = "QuadColor" -> {<<(pos % 4) * 2, 8>>, <<(pos % 4) * 2, 32>>}
      [] fam = "OctColor" -> {<<(pos % 2) * 4, 8>>, <<4, 16>>}

\* a call of bitmask: its value, or a panic on an overflowing shift
bitmask_call(fam, c, flag, pos) ==
    IF \A sh \in bitmask_shifts(fam, pos) : sh[1] < sh[2]
    THEN <<"Ok", bitmask(fam, c, flag, pos)>>
    ELSE Panicked

(***************************************************************************)
(* Frame buffer: write path (byte = (byte & mask) | bits) and the read     *)
(* path of the simulator                                                   *)
(***************************************************************************)
\* byte_index of a pixel position
ByteIndex(fam, pos) == (pos * BITS_PER_PIXEL_PER_BUFFER(fam)) \div 8

\* pixels held by NumBytes bytes of one plane
NumPixels(fam) == (NumBytes * 8) \div BITS_PER_PIXEL_PER_BUFFER(fam)

\* the buffer after writing colour c at position pos, plane 2 at plane_stride
ApplyPixel(fam, buf, plane_stride, c, flag, pos) ==
    LET mb == bitmask(fam, c, flag, pos)
        i == ByteIndex(fam, pos)
        b1 == [buf EXCEPT ![i] = Or8(And8(buf[i], mb[1]), AsU8(mb[2]))]
    IN  IF BUFFER_COUNT(fam) = 2
        THEN [b1 EXCEPT ![i + plane_stride] =
                 Or8(And8(buf[i + plane_stride], mb[1]), Shr(mb[2], 8))]
        ELSE b1

\* the value update_simulator_region hands to from_bits for position pos
ReadBits(fam, bg, buf, pos) ==
    LET mask == bitmask(fam, bg, FALSE, pos)[1]
    IN  And8(buf[ByteIndex(fam, pos)], mask)

\* the colour update_simulator_region draws for position pos
ReadPixel(fam, bg, buf, pos) == from_bits(fam, ReadBits(fam, bg, buf, pos))

NoOp == [op |-> "none", c |-> "", pos |-> 0, mask |-> 0, bits |-> 0]
NoCall == [fn |-> "none"]
NotWritten == ""

\* variables of the other specifications keep their idle value
CodecIdle ==
    /\ family = "Color"
    /\ bwrbit = FALSE
    /\ prior = <<>>
    /\ buffer = <<>>
    /\ written = <<>>
    /\ last = NoOp
    /\ nwrites = 0

ConvIdle == call = NoCall

SimIdle ==
    /\ width = 0
    /\ height = 0
    /\ background_color = ""
    /\ simbuf = <<>>
    /\ display = <<>>
    /\ simstate = "idle"
    /\ simops = 0

NoDrvOp == [op |-> "none"]

DrvIdle ==
    /\ overflow_checks = FALSE
    /\ drvstate = "idle"
    /\ wire = <<>>
    /\ drvlast = NoDrvOp
    /\ refresh_pending = FALSE
    /\ drvops = 0

(***************************************************************************)
(* Specification of the buffer codec: a frame buffer of NumBytes bytes per *)
(* plane with arbitrary prior content, written one pixel at a time         *)
(***************************************************************************)
Positions == 0 .. NumPixels(family) - 1

Init ==
    /\ family \in Families
    /\ bwrbit \in (IF family = "TriColor" THEN BOOLEAN ELSE {FALSE})
    /\ \E k \in 0 .. Len(PriorSeq) - 1 :
           prior = [i \in 0 .. NumBytes * BUFFER_COUNT(family) - 1 |->
                        PriorSeq[((i + k) % Len(PriorSeq)) + 1]]
    /\ buffer = prior
    /\ written = [p \in 0 .. NumPixels(family) - 1 |-> NotWritten]
    /\ last = NoOp
    /\ nwrites = 0
    /\ ConvIdle
    /\ SimIdle
    /\ DrvIdle

\* one pixel write of the frame-buffer owner
set_pixel(c, pos) ==
    /\ nwrites < MaxWrites
    /\ buffer' = ApplyPixel(family, buffer, NumBytes, c, bwrbit, pos)
    /\ written' = [written EXCEPT ![pos] = c]
    /\ last' = [op |-> "set_pixel", c |-> c, pos |-> pos,
                mask |-> bitmask(family, c, bwrbit, pos)[1],
                bits |-> bitmask(family, c, bwrbit, pos)[2]]
    /\ nwrites' = nwrites + 1
    /\ UNCHANGED <<family, bwrbit, prior, call>>
    /\ UNCHANGED simVars
    /\ UNCHANGED drvVars

Next ==
    \E c \in Variants(family), pos \in Positions : set_pixel(c, pos)

Spec == Init /\ [][Next]_vars

(***************************************************************************)
(* Properties of the buffer codec                                          *)
(***************************************************************************)
\* the bits of a byte that belong to pixel pos: one bit from the most
\* significant end (Color, TriColor), two bits at shift (pos % 4) * 2
\* (QuadColor), the high nibble for even and the low nibble for odd
\* positions (OctColor)
FieldMask(fam, pos) ==
    CASE fam \in {"Color", "TriColor"} -> Shr(128, pos % 8)
      [] fam = "QuadColor" -> 3 * Pow2((pos % 4) * 2)
      [] fam = "OctColor" -> IF pos % 2 = 0 THEN 240 ELSE 15

\* C1: a colour written at a position is the colour the read path of the
\* simulator decodes at that position, whatever the buffer held before.
C1_RoundTrip ==
    last.op = "set_pixel" =>
        \A bg \in Variants(family) :
            ReadPixel(family, bg, buffer, last.pos) = last.c

\* C2: the mask of a write is zero exactly on the field of the written
\* pixel and both bytes of its bits are zero outside that field; after any
\* sequence of writes every written pixel holds, on every plane, the code of
\* the last colour written to it and every other pixel holds its prior bits.
C2_MaskExclusivity ==
    /\ last.op = "set_pixel" =>
           LET f == FieldMask(family, last.pos)
           IN  /\ last.mask = Not8(f)
               /\ And8(AsU8(last.bits), Not8(f)) = 0
               /\ And8(Shr(last.bits, 8), Not8(f)) = 0
    /\ \A p \in Positions :
           LET f == FieldMask(family, p)
               i == ByteIndex(family, p)
           IN  IF written[p] = NotWritten
               THEN \A k \in 0 .. BUFFER_COUNT(family) - 1 :
                        And8(buffer[i + k * NumBytes], f)
                            = And8(prior[i + k * NumBytes], f)
               ELSE LET bits == bitmask(family, written[p], bwrbit, p)[2]
                    IN  /\ And8(buffer[i], f) = AsU8(bits)
                        /\ BUFFER_COUNT(family) = 2 =>
                               And8(buffer[i + NumBytes], f) = Shr(bits, 8)

\* two pixels of one byte were written with different colours, the second
\* one last
C2_Witness ==
    /\ last.op = "set_pixel"
    /\ \E p \in Positions :
           /\ p # last.pos
           /\ ByteIndex(family, p) = ByteIndex(family, last.pos)
           /\ written[p] # NotWritten
           /\ written[p] # last.c

\* C3: the value the read path hands to from_bits for position p is the
\* field of pixel p (the byte under the complement of the write mask), so
\* the decoded colour is the same for any byte that agrees on that field.
C3_ReadOwnField ==
    \A p \in Positions, bg \in Variants(family) :
        LET f == FieldMask(family, p)
            i == ByteIndex(family, p)
        IN  /\ ReadBits(family, bg, buffer, p) = And8(buffer[i], f)
            /\ \A b2 \in Bytes :
                   And8(b2, f) = And8(buffer[i], f) =>
                       ReadPixel(family, bg, [buffer EXCEPT ![i] = b2], p)
                           = ReadPixel(family, bg, buffer, p)

\* C6: tri-colour truth table.  Black and White return mask !bit, a zero
\* chromatic-plane byte and do not depend on the flag (plane-1 bit 0 for
\* Black, 1 for White); Chromatic returns mask !bit and the chromatic-plane
\* bit for both flag values, the plane-1 bit clear when the flag is set and
\* set when it is unset.
C6_TriColorTruthTable ==
    (family = "TriColor" /\ last.op = "set_pixel") =>
        LET bit == Shr(128, last.pos % 8)
            lo == last.bits % 256
            hi == last.bits \div 256
            other == bitmask("TriColor", last.c, ~bwrbit, last.pos)
        IN  /\ last.mask = Not8(bit)
            /\ other[1] = last.mask
            /\ last.c = "Black" => (lo = 0 /\ hi = 0 /\ other[2] = last.bits)
            /\ last.c = "White" => (lo = bit /\ hi = 0 /\ other[2] = last.bits)
            /\ last.c = "Chromatic" =>
                   /\ hi = bit
                   /\ lo = (IF bwrbit THEN 0 ELSE bit)
                   /\ other[2] \div 256 = bit
                   /\ other[2] % 256 = (IF bwrbit THEN bit ELSE 0)

\* Chromatic written with the flag set at a position of the second byte
C6_Witness ==
    /\ family = "TriColor"
    /\ bwrbit
    /\ last.op = "set_pixel"
    /\ last.c = "Chromatic"
    /\ last.pos > 8

\* C9: decoding the right-aligned two-bit code that bitmask writes for a
\* quad colour gives that colour back.
C9_QuadLeftInverse ==
    (family = "QuadColor" /\ last.op = "set_pixel") =>
        /\ Shr(AsU8(last.bits), (last.pos % 4) * 2)
               = QuadColor_color_bits(last.c)
        /\ from_bits("QuadColor", Shr(AsU8(last.bits), (last.pos % 4) * 2))
               = last.c

\* C15: once an even position p and position p + 1 of an octal buffer were
\* written with colours a and b, in either order and over any prior byte,
\* their byte is colors_byte(a, b): a in the high nibble, b in the low one.
C15_OctNibblePlacement ==
    family = "OctColor" =>
        \A p \in Positions :
            (p % 2 = 0 /\ written[p] # NotWritten /\ written[p + 1] # NotWritten) =>
                buffer[ByteIndex(family, p)] = colors_byte(written[p], written[p + 1])

\* an odd position was written first and the even one before it second,
\* with another colour, over a prior byte with bits set in both nibbles
C15_Witness ==
    /\ family = "OctColor"
    /\ last.op = "set_pixel"
    /\ last.pos % 2 = 0
    /\ written[last.pos + 1] # NotWritten
    /\ written[last.pos + 1] # last.c
    /\ prior[ByteIndex(family, last.pos)] = 165

(***************************************************************************)
(* Specification of the conversions: every step is one call of a           *)
(* conversion of src/color.rs, on a fresh input or on the result of the    *)
(* call before it                                                          *)
(***************************************************************************)
Fresh == <<>>

\* positions bitmask is called on: the first ones and large u32 values
CallPositions == (0 .. NumBytes * 8 - 1) \cup {65535, 65536, 2147483646, 2147483647}

InitConv ==
    /\ CodecIdle
    /\ call = NoCall
    /\ SimIdle
    /\ DrvIdle

Record(fn, arg, res, from) ==
    /\ call' = [fn |-> fn, arg |-> arg, res |-> res, from |-> from]
    /\ UNCHANGED codecVars
    /\ UNCHANGED simVars
    /\ UNCHANGED drvVars

call_from_nibble(v) == Record("from_nibble", v, from_nibble(v), Fresh)

call_colors_byte(a, b) == Record("colors_byte", <<a, b>>, colors_byte(a, b), Fresh)

call_split_byte(v) == Record("split_byte", v, split_byte(v), Fresh)

\* OctColor::split_byte(OctColor::colors_byte(a, b))
call_split_packed ==
    /\ call.fn = "colors_byte"
    /\ Record("split_byte", call.res, split_byte(call.res), call.arg)

call_from_bits(fam, v) == Record("from_bits", <<fam, v>>, from_bits(fam, v), Fresh)

call_get_bit_value(c) == Record("get_bit_value", c, get_bit_value(c), Fresh)

call_Color_from(v) == Record("Color::from", v, Color_from(v), Fresh)

call_OctColor_from(raw) ==
    Record("OctColor::from", raw, OctColor_from_RawU4(raw), Fresh)

call_bitmask(fam, c, flag, pos) ==
    Record("bitmask", <<fam, c, flag, pos>>, bitmask_call(fam, c, flag, pos), Fresh)

\* Color::from(c.get_bit_value())
call_Color_from_bit_value ==
    /\ call.fn = "get_bit_value"
    /\ call.from = Fresh
    /\ Record("Color::from", call.res, Color_from(call.res), <<call.arg>>)

\* Color::from(v).get_bit_value(), reached only when Color::from returned
call_bit_value_of_from ==
    /\ call.fn = "Color::from"
    /\ call.from = Fresh
    /\ Tag(call.res) = "Ok"
    /\ Record("get_bit_value", ColorOf(call.res), get_bit_value(ColorOf(call.res)),
              <<call.arg>>)

NextConv ==
    \/ \E v \in Bytes : call_from_nibble(v)
    \/ \E a \in OctColor, b \in OctColor : call_colors_byte(a, b)
    \/ \E v \in Bytes : call_split_byte(v)
    \/ call_split_packed
    \/ \E fam \in Families, v \in Bytes : call_from_bits(fam, v)
    \/ \E c \in Color : call_get_bit_value(c)
    \/ \E v \in Bytes : call_Color_from(v)
    \/ call_Color_from_bit_value
    \/ call_bit_value_of_from
    \/ \E raw \in 0 .. 15 : call_OctColor_from(raw)
    \/ \E fam \in Families, pos \in CallPositions :
           \E c \in Variants(fam),
              flag \in (IF fam = "TriColor" THEN BOOLEAN ELSE {FALSE}) :
               call_bitmask(fam, c, flag, pos)

SpecConv == InitConv /\ [][NextConv]_vars

\* the OctColor variant with a given nibble value, in enumeration order
OctVariant(n) ==
    <<"Black", "White", "Green", "Blue", "Red", "Yellow", "Orange", "HiZ">>[n + 1]

\* C5: splitting the byte packed from two octal colours (a, b) returns
\* Ok((a, b)), a from the high nibble and b from the low nibble.
C5_SplitMerge ==
    (call.fn = "split_byte" /\ call.from # Fresh) =>
        /\ call.res = OkPair(call.from[1], call.from[2])
        /\ call.arg \div 16 = get_nibble(call.from[1])
        /\ call.arg % 16 = get_nibble(call.from[2])

\* the byte packed from (Red, Green) has been split
C5_Witness ==
    /\ call.fn = "split_byte"
    /\ call.from = <<"Red", "Green">>
    /\ Tag(call.res) = "Ok"

\* C7: for v in 0..7 OctColor::from_bits(v) is the variant whose nibble is v
\* (the colour from_nibble(v) returns); only other values fall back to Red.
C7_OctDecode ==
    (call.fn = "from_bits" /\ call.arg[1] = "OctColor") =>
        IF call.arg[2] \in 0 .. 7
        THEN /\ get_nibble(call.res) = call.arg[2]
             /\ from_nibble(call.arg[2]) = OkColor(call.res)
        ELSE call.res = "Red"

\* C8: from_nibble(v) is Ok of the variant with nibble v for v in 0..7 and
\* an error carrying v for every v in 8..255.
C8_StrictNibble ==
    call.fn = "from_nibble" =>
        IF call.arg \in 0 .. 7
        THEN call.res = OkColor(OctVariant(call.arg))
        ELSE call.res = ErrRange(call.arg)

\* C8 as amended: from_nibble parses the low four bits n of its input v,
\* Ok of the variant with nibble n for n in 0..7 and an error carrying n
\* for n in 8..15 (n = v for every v in 0..15).
C8_LowNibble ==
    call.fn = "from_nibble" =>
        LET n == call.arg % 16
        IN  IF n \in 0 .. 7
            THEN call.res = OkColor(OctVariant(n))
            ELSE call.res = ErrRange(n)

\* from_nibble was called on a byte above 15 whose low nibble is no colour
C8_Witness ==
    /\ call.fn = "from_nibble"
    /\ call.arg > 15
    /\ Tag(call.res) = "Err"

\* C10: Color::from(0) is Black and Color::from(1) is White, Color::from
\* panics for every byte from 2 to 255, Color::from(c.get_bit_value()) is c
\* and Color::from(v).get_bit_value() is v for v in {0, 1}.
C10_ColorFromU8 ==
    /\ call.fn = "Color::from" =>
           /\ call.arg = 0 => call.res = Returned("Black")
           /\ call.arg = 1 => call.res = Returned("White")
           /\ call.arg \in 2 .. 255 => call.res = Panicked
           /\ call.from # Fresh => call.res = Returned(call.from[1])
    /\ (call.fn = "get_bit_value" /\ call.from # Fresh) =>
           /\ call.from[1] \in {0, 1}
           /\ call.res = call.from[1]

\* Color::from was called on a byte that is no bit value
C10_Witness ==
    /\ call.fn = "Color::from"
    /\ call.arg = 255
    /\ Tag(call.res) = "Panic"

(***************************************************************************)
(* The 7.5in quad-colour driver: frame sizes                               *)
(* (src/epd7in5_yrd0750ryf665f60/mod.rs)                                   *)
(***************************************************************************)
WIDTH == 800
HEIGHT == 480
NUM_DISPLAY_BITS == (WIDTH \div 4) * HEIGHT

(***************************************************************************)
(* Specification of the simulator (src/epd_simulator/mod.rs)               *)
(***************************************************************************)
\* buffer_size of new_with_size; the u32 product width * height does not
\* overflow for the sizes modelled (at most 800 * 480)
buffer_size(fam, w, h) == ((w * h) \div 8) * BITS_PER_PIXEL_PER_BUFFER(fam)

BufLen(buf) == Cardinality(DOMAIN buf)

\* a caller-supplied buffer of n bytes, PriorSeq from element k onwards
Pattern(n, k) == [i \in 0 .. n - 1 |-> PriorSeq[((i + k) % Len(PriorSeq)) + 1]]

\* position of the k-th pixel the loop of update_simulator_region visits
RegionPos(x, y, w, k) == (y + (k \div w)) * width + (x + (k % w))

\* update_simulator_region on buffer buf: the pixels are redrawn in loop
\* order until a byte index is out of range, which panics
update_simulator_region(buf, x, y, w, h) ==
    LET n == w * h
        Bad(k) == ByteIndex(family, RegionPos(x, y, w, k)) >= BufLen(buf)
        firstBad == IF \E k \in 0 .. n - 1 : Bad(k)
                    THEN CHOOSE k \in 0 .. n - 1 :
                             Bad(k) /\ \A j \in 0 .. k - 1 : ~Bad(j)
                    ELSE n
    IN  /\ display' = [p \in DOMAIN display |->
                          IF \E k \in 0 .. firstBad - 1 : RegionPos(x, y, w, k) = p
                          THEN ReadPixel(family, background_color, buf, p)
                          ELSE display[p]]
        /\ simstate' = IF firstBad < n THEN "panicked" ELSE "ok"

\* the state new_with_size(width, height) returns
InitSim ==
    /\ family \in Families
    /\ bwrbit = FALSE
    /\ prior = <<>>
    /\ buffer = <<>>
    /\ written = <<>>
    /\ last = NoOp
    /\ nwrites = 0
    /\ ConvIdle
    /\ DrvIdle
    /\ width \in 1 .. MaxDim
    /\ height \in 1 .. MaxDim
    /\ background_color = DefaultColor(family)
    /\ simbuf = [i \in 0 .. buffer_size(family, width, height) - 1 |-> 0]
    /\ display = [p \in 0 .. width * height - 1 |-> DefaultColor(family)]
    /\ simstate = "ok"
    /\ simops = 0

SimStep ==
    /\ simstate = "ok"
    /\ simops < MaxSimOps
    /\ simops' = simops + 1
    /\ UNCHANGED <<width, height>>
    /\ UNCHANGED codecVars
    /\ UNCHANGED call
    /\ UNCHANGED drvVars

sim_set_background_color(c) ==
    /\ SimStep
    /\ background_color' = c
    /\ UNCHANGED <<simbuf, display, simstate>>

\* update_frame with a buffer of n bytes
sim_update_frame(n, k) ==
    /\ SimStep
    /\ UNCHANGED background_color
    /\ IF n # BufLen(simbuf)
       THEN \* copy_from_slice panics on a length mismatch
            /\ simstate' = "panicked"
            /\ UNCHANGED <<simbuf, display>>
       ELSE /\ simbuf' = Pattern(n, k)
            /\ update_simulator_region(Pattern(n, k), 0, 0, width, height)

\* update_partial_frame with a buffer of n bytes
sim_update_partial_frame(n, k, x, y, w, h) ==
    LET start_idx == (y * width + x) \div 8
        end_idx == start_idx + ((w * h) \div 8)
        src == Pattern(n, k)
        copied == [i \in DOMAIN simbuf |->
                      IF i >= start_idx /\ i < end_idx
                      THEN src[i - start_idx] ELSE simbuf[i]]
    IN  /\ SimStep
        /\ UNCHANGED background_color
        /\ IF end_idx > BufLen(simbuf) \/ n # end_idx - start_idx
           THEN \* the slice or copy_from_slice panics
                /\ simstate' = "panicked"
                /\ UNCHANGED <<simbuf, display>>
           ELSE /\ simbuf' = copied
                /\ update_simulator_region(copied, x, y, w, h)

sim_clear_frame ==
    /\ SimStep
    /\ simbuf' = [i \in DOMAIN simbuf |-> 0]
    /\ display' = [p \in DOMAIN display |-> background_color]
    /\ UNCHANGED <<background_color, simstate>>

NextSim ==
    \/ \E c \in Variants(family) : sim_set_background_color(c)
    \/ \E n \in {BufLen(simbuf) - 1, BufLen(simbuf), BufLen(simbuf) + 1} \cap Nat,
          k \in 0 .. NumPatterns - 1 : sim_update_frame(n, k)
    \/ \E x \in 0 .. width - 1, y \in 0 .. height - 1 :
           \E w \in 1 .. width - x, h \in 1 .. height - y :
               \E n \in {(w * h) \div 8, (w * h) \div 8 + 1},
                  k \in 0 .. NumPatterns - 1 :
                   sim_update_partial_frame(n, k, x, y, w, h)
    \/ sim_clear_frame

SpecSim == InitSim /\ [][NextSim]_vars

CeilDiv(a, b) == (a + b - 1) \div b

\* C4: the buffer the simulator allocates has ceil(W*H*b*n/8) bytes, the
\* frame the 7.5in driver sends has that many bytes for 800x480 at two bits
\* per pixel (96000), and a monochrome 800x480 frame has 48000 bytes.
C4_BufferLength ==
    simstate # "idle" =>
        /\ BufLen(simbuf)
               = CeilDiv(width * height * BITS_PER_PIXEL_PER_BUFFER(family)
                             * BUFFER_COUNT(family), 8)
        /\ NUM_DISPLAY_BITS
               = CeilDiv(WIDTH * HEIGHT * BITS_PER_PIXEL_PER_BUFFER("QuadColor")
                             * BUFFER_COUNT("QuadColor"), 8)
        /\ NUM_DISPLAY_BITS = 96000
        /\ buffer_size("Color", WIDTH, HEIGHT) = 48000

\* the bytes of the buffer that hold a pixel of the rectangle
RegionBytes(x, y, w, h) ==
    {ByteIndex(family, RegionPos(x, y, w, j)) : j \in 0 .. w * h - 1}

\* C16: update_partial_frame changes only bytes of the buffer that hold a
\* pixel of the rectangle it is given; every byte that holds only pixels
\* outside the rectangle keeps its value.
C16_PartialFrameLocal ==
    [][\A x \in 0 .. width - 1, y \in 0 .. height - 1 :
           \A w \in 1 .. width - x, h \in 1 .. height - y :
               \A n \in {(w * h) \div 8, (w * h) \div 8 + 1},
                  k \in 0 .. NumPatterns - 1 :
                   sim_update_partial_frame(n, k, x, y, w, h) =>
                       \A i \in DOMAIN simbuf :
                           simbuf'[i] # simbuf[i] => i \in RegionBytes(x, y, w, h)]_vars

\* C18: after construction and after every operation the simulator
\* completes, each pixel of the display is the colour its buffer bits
\* decode to on the read path of update_simulator_region.
C18_DisplayMatchesBuffer ==
    simstate = "ok" =>
        \A p \in DOMAIN display :
            ByteIndex(family, p) < BufLen(simbuf) =>
                display[p] = ReadPixel(family, background_color, simbuf, p)

\* C19: update_frame on a buffer of the allocated length completes: every
\* byte index pos * bits-per-pixel / 8 its redraw computes is below the
\* length of the buffer, for every width, height and family.
C19_IndexInRange ==
    [][\A k \in 0 .. NumPatterns - 1 :
           sim_update_frame(BufLen(simbuf), k) =>
               /\ simstate' = "ok"
               /\ \A pos \in 0 .. width * height - 1 :
                      ByteIndex(family, pos) < BufLen(simbuf')]_vars

(***************************************************************************)
(* Properties of the conversions, continued                                *)
(***************************************************************************)
\* the call recorded last unwound with a panic
Aborted ==
    /\ call.fn \in {"Color::from", "OctColor::from", "bitmask"}
    /\ Tag(call.res) = "Panic"

\* C11: no operation of the colour model aborts; the only failures are the
\* Err values of from_nibble and split_byte.
C11_NoAbort ==
    /\ ~Aborted
    /\ call.fn \in {"from_nibble", "split_byte"} => Tag(call.res) \in {"Ok", "Err"}

\* C11 as amended: bitmask, from_bits, get_bit_value and colors_byte return
\* a value for every input, from_nibble and split_byte return Ok or Err,
\* and the only aborts are Color::from on a byte other than 0 and 1 and
\* OctColor::from on a raw value from 8 to 15.
C11_OnlyConversionAborts ==
    /\ call.fn = "bitmask" =>
           /\ Tag(call.res) = "Ok"
           /\ call.res[2][1] \in Bytes
           /\ call.res[2][2] \in 0 .. 65535
    /\ call.fn = "from_bits" => call.res \in Variants(call.arg[1])
    /\ call.fn = "get_bit_value" => call.res \in {0, 1}
    /\ call.fn = "colors_byte" => call.res \in Bytes
    /\ call.fn \in {"from_nibble", "split_byte"} => Tag(call.res) \in {"Ok", "Err"}
    /\ call.fn = "Color::from" =>
           (Tag(call.res) = "Panic" <=> call.arg \notin {0, 1})
    /\ call.fn = "OctColor::from" =>
           (Tag(call.res) = "Panic" <=> call.arg \in 8 .. 15)

\* Color::from was called on the byte 255 and panicked
C11_Witness ==
    /\ call.fn = "Color::from"
    /\ call.arg = 255
    /\ Tag(call.res) = "Panic"

\* C13: from_bits decodes as its documentation states: 0 is black and 1 is
\* white for the binary colour; 00 is black, 01 is white and 11 is the
\* chromatic colour for the tri-colour.
C13_FromBitsAsDocumented ==
    call.fn = "from_bits" =>
        /\ call.arg = <<"Color", 0>> => call.res = "Black"
        /\ call.arg = <<"Color", 1>> => call.res = "White"
        /\ call.arg = <<"TriColor", 0>> => call.res = "Black"
        /\ call.arg = <<"TriColor", 1>> => call.res = "White"
        /\ call.arg = <<"TriColor", 3>> => call.res = "Chromatic"

(***************************************************************************)
(* Specification of the 7.5in quad-colour driver                           *)
(* (src/epd7in5_yrd0750ryf665f60/mod.rs): every step is one operation of   *)
(* Epd7in5, `wire` is the sequence of calls the operation made on the      *)
(* display interface.  A payload is either constant bytes or the prefix    *)
(* &buffer[..to] of the caller's buffer.                                   *)
(***************************************************************************)
Fixed(bytes) == <<"bytes", bytes>>
Slice(to) == <<"buffer", <<0, to>>>>

reset == <<"reset", 20000, 20000>>
wait_until_idle == <<"wait_until_idle">>
delay_us(us) == <<"delay_us", us>>
command(c) == <<"cmd", c>>
send_data(d) == <<"data", d>>
cmd_with_data(c, d) == <<"cmd_with_data", c, d>>
data_x_times(val, n) == <<"data_x_times", val, n>>

send_resolution ==
    << command("TconResolution"),
       send_data(Fixed(<<AsU8(Shr(WIDTH, 8))>>)),
       send_data(Fixed(<<AsU8(WIDTH)>>)),
       send_data(Fixed(<<AsU8(Shr(HEIGHT, 8))>>)),
       send_data(Fixed(<<AsU8(HEIGHT)>>)) >>

\* an operation is <<how it ended, the calls it made>>
init ==
    <<"ok",
      << reset,
         wait_until_idle,
         cmd_with_data("MisteryCommand1", Fixed(<<120>>)),
         cmd_with_data("PanelSetting", Fixed(<<47, 41>>)),
         cmd_with_data("VcomAndDataIntervalSetting", Fixed(<<55>>)),
         cmd_with_data("SpiFlashControl", Fixed(<<0, 0, 0, 0>>)),
         cmd_with_data("PowerSavingSetting", Fixed(<<136>>)),
         cmd_with_data("MisteryCommand2", Fixed(<<1>>)),
         cmd_with_data("PllControl", Fixed(<<8>>)),
         command("PowerOn"),
         wait_until_idle >> >>

wake_up == init

sleep ==
    <<"ok",
      << wait_until_idle,
         cmd_with_data("PowerOff", Fixed(<<0>>)),
         wait_until_idle,
         cmd_with_data("DeepSleep", Fixed(<<165>>)) >> >>

\* update_frame on a buffer of len bytes: &buffer[..NUM_DISPLAY_BITS]
\* panics on a shorter buffer
update_frame(len) ==
    IF len < NUM_DISPLAY_BITS
    THEN <<"panicked", <<wait_until_idle>> >>
    ELSE <<"ok",
           << wait_until_idle,
              cmd_with_data("DataStartTransmission1", Slice(NUM_DISPLAY_BITS)) >> >>

display_frame ==
    <<"ok",
      << cmd_with_data("DisplayRefresh", Fixed(<<0>>)),
         delay_us(500),
         wait_until_idle >> >>

update_and_display_frame(len) ==
    LET u == update_frame(len)
    IN  IF u[1] = "panicked"
        THEN u
        ELSE <<"ok", u[2] \o <<command("PowerOn")>> \o display_frame[2]>>

clear_frame ==
    <<"ok",
      <<wait_until_idle>> \o send_resolution \o
      << command("DataStartTransmission1"),
         data_x_times(85, (WIDTH * HEIGHT) \div 4),
         command("DataStop"),
         command("DisplayRefresh") >> >>

\* update_partial_frame2 on a buffer of len bytes.  (x + width) / 8 - 1 is
\* computed on u32: below zero it panics in a build with overflow checks
\* and wraps in one without, where `as u8` keeps the low byte.
update_partial_frame2(len, x, y, w, h, checks) ==
    LET hred == ((x + w) \div 8) - 1
        hrst_upper == Shr(AsU8(x \div 8), 5)
        hrst_lower == AsU8((x \div 8) * 8)
        hred_upper == Shr(AsU8(hred), 5)
        hred_lower == Or8(AsU8(hred * 8), 7)
        vrst_upper == AsU8(Shr(y, 8))
        vrst_lower == AsU8(y)
        vred_upper == AsU8(Shr(y + h - 1, 8))
        vred_lower == AsU8(y + h - 1)
        pt_scan == 1
        half == len \div 2
    IN  IF hred < 0 /\ checks
        THEN <<"panicked", <<wait_until_idle>> >>
        ELSE <<"ok",
               << wait_until_idle,
                  cmd_with_data("PartialWindow",
                      Fixed(<<hrst_upper, hrst_lower, hred_upper, hred_lower,
                              vrst_upper, vrst_lower, vred_upper, vred_lower,
                              pt_scan>>)),
                  cmd_with_data("DataStartTransmission1", Slice(half)),
                  command("DisplayRefresh"),
                  wait_until_idle >> >>

IsWait(e) == e[1] = "wait_until_idle"
IssuesRefresh(e) == e[1] \in {"cmd", "cmd_with_data"} /\ e[2] = "DisplayRefresh"
Transfers(e) == e[1] \in {"cmd", "cmd_with_data", "data", "data_x_times"}

\* whether, after the first i calls of evs, a DisplayRefresh was issued and
\* the busy signal was not waited for since
PendingAfter(pending, evs, i) ==
    LET marks == {j \in 1 .. i : IsWait(evs[j]) \/ IssuesRefresh(evs[j])}
    IN  IF marks = {}
        THEN pending
        ELSE IssuesRefresh(evs[CHOOSE j \in marks : \A k \in marks : k <= j])

\* the state Epd7in5::new returns: it has run init
InitDrv ==
    /\ CodecIdle
    /\ ConvIdle
    /\ SimIdle
    /\ overflow_checks \in BOOLEAN
    /\ drvstate = "ok"
    /\ wire = init[2]
    /\ drvlast = [op |-> "new", args |-> <<>>, pending |-> FALSE]
    /\ refresh_pending = PendingAfter(FALSE, init[2], Len(init[2]))
    /\ drvops = 0

DrvStep(op, args, result) ==
    /\ drvstate = "ok"
    /\ drvops < MaxDrvOps
    /\ drvops' = drvops + 1
    /\ drvstate' = result[1]
    /\ wire' = result[2]
    /\ drvlast' = [op |-> op, args |-> args, pending |-> refresh_pending]
    /\ refresh_pending' = PendingAfter(refresh_pending, result[2], Len(result[2]))
    /\ UNCHANGED overflow_checks
    /\ UNCHANGED codecVars
    /\ UNCHANGED call
    /\ UNCHANGED simVars

epd_wake_up == DrvStep("wake_up", <<>>, wake_up)
epd_sleep == DrvStep("sleep", <<>>, sleep)
epd_update_frame(len) == DrvStep("update_frame", <<len>>, update_frame(len))
epd_display_frame == DrvStep("display_frame", <<>>, display_frame)
epd_update_and_display_frame(len) ==
    DrvStep("update_and_display_frame", <<len>>, update_and_display_frame(len))
epd_clear_frame == DrvStep("clear_frame", <<>>, clear_frame)
epd_update_partial_frame2(len, x, y, w, h) ==
    DrvStep("update_partial_frame2", <<len, x, y, w, h>>,
            update_partial_frame2(len, x, y, w, h, overflow_checks))

\* bytes that cover w x h pixels at the two bits per pixel of QuadColor
WindowBytes(w, h) == CeilDiv(w * h * BITS_PER_PIXEL_PER_BUFFER("QuadColor"), 8)

\* the inputs of the operations: frame buffers of the exact length, one
\* byte short and one byte long; windows inside the panel, aligned to
\* eight columns or not, narrower than one byte column, beyond column and
\* row 255; window buffers of the full length, one byte short, of the
\* length width / 8 * height and empty
FrameLens == {NUM_DISPLAY_BITS - 1, NUM_DISPLAY_BITS, NUM_DISPLAY_BITS + 1}
WindowXs == {0, 10, 16, 256, 792}
WindowWidths == {1, 4, 8, 32, 544}
WindowYs == {0, 255, 479}
WindowHeights == {1, 2, 225}
WindowLens(w, h) == {WindowBytes(w, h), WindowBytes(w, h) - 1, (w \div 8) * h, 0}

NextDrv ==
    \/ epd_wake_up
    \/ epd_sleep
    \/ \E len \in FrameLens : epd_update_frame(len)
    \/ epd_display_frame
    \/ \E len \in FrameLens : epd_update_and_display_frame(len)
    \/ epd_clear_frame
    \/ \E x \in WindowXs, y \in WindowYs, w \in WindowWidths, h \in WindowHeights :
           /\ x + w <= WIDTH
           /\ y + h <= HEIGHT
           /\ \E len \in WindowLens(w, h) : epd_update_partial_frame2(len, x, y, w, h)

SpecDrv == InitDrv /\ [][NextDrv]_vars

(***************************************************************************)
(* Properties of the driver                                                *)
(***************************************************************************)
\* upper and lower byte of a 16-bit value
Upper(v) == (v \div 256) % 256
Lower(v) == v % 256

\* C12: for every window inside the panel, of width and height at least 1,
\* update_partial_frame2 completes and the PartialWindow command carries
\* the 16-bit column values 8 * (x / 8) and 8 * ((x + width) / 8 - 1) + 7
\* and the 16-bit rows y and y + height - 1, each as upper and lower byte.
C12_PartialWindow ==
    drvlast.op = "update_partial_frame2" =>
        LET x == drvlast.args[2]
            y == drvlast.args[3]
            w == drvlast.args[4]
            h == drvlast.args[5]
            hrst == 8 * (x \div 8)
            hred == 8 * (((x + w) \div 8) - 1) + 7
            vrst == y
            vred == y + h - 1
        IN  /\ drvstate = "ok"
            /\ Len(wire) >= 2
            /\ wire[2][1] = "cmd_with_data"
            /\ wire[2][2] = "PartialWindow"
            /\ SubSeq(wire[2][3][2], 1, 8)
                   = << Upper(hrst), Lower(hrst), Upper(hred), Lower(hred),
                        Upper(vrst), Lower(vrst), Upper(vred), Lower(vred) >>

\* the operation made a call that carries bytes of the caller's buffer
SentFromBuffer ==
    \E i \in 1 .. Len(wire) :
        /\ wire[i][1] \in {"cmd_with_data", "data"}
        /\ wire[i][Len(wire[i])][1] = "buffer"

\* C14: an operation given a buffer shorter than it requires (the frame of
\* NUM_DISPLAY_BITS bytes, the bytes that cover the window) panics and has
\* sent nothing of the buffer.
C14_ShortBufferPanics ==
    /\ (/\ drvlast.op \in {"update_frame", "update_and_display_frame"}
        /\ drvlast.args[1] < NUM_DISPLAY_BITS)
           => (drvstate = "panicked" /\ ~SentFromBuffer)
    /\ (/\ drvlast.op = "update_partial_frame2"
        /\ drvlast.args[1] < WindowBytes(drvlast.args[4], drvlast.args[5]))
           => (drvstate = "panicked" /\ ~SentFromBuffer)

\* C17: no command or data is sent while a DisplayRefresh is pending, that
\* is, was issued with no wait_until_idle since, in any sequence of
\* operations.
C17_WaitAfterRefresh ==
    drvstate \in {"ok", "panicked"} =>
        \A i \in 1 .. Len(wire) :
            Transfers(wire[i]) => ~PendingAfter(drvlast.pending, wire, i - 1)

\* C20: update_partial_frame2 on a buffer of the bytes that cover the window
\* sends, after PartialWindow, every byte of the buffer with
\* DataStartTransmission1.
C20_WholeWindowSent ==
    (/\ drvlast.op = "update_partial_frame2"
     /\ drvstate = "ok"
     /\ drvlast.args[1] = WindowBytes(drvlast.args[4], drvlast.args[5])) =>
        /\ wire[2][2] = "PartialWindow"
        /\ wire[3] = cmd_with_data("DataStartTransmission1", Slice(drvlast.args[1]))

====
